---- MODULE Spec2Model ----
(***************************************************************************)
(* State-machine model of the dashboard Activity page                      *)
(* (src/apps/dashboard/routes/activity.tsx): the view-mode state, its      *)
(* synchronisation with the `useractivity` URL query parameter, the        *)
(* pagination model, the derived fetch parameters, the column set and the  *)
(* activity-log query the page subscribes to.                              *)
(***************************************************************************)
EXTENDS Integers, Sequences, FiniteSets, TLC

\* ------------------------------------------------------------------------
\* Bounds of the model
\* ------------------------------------------------------------------------
MaxPage == 2
MaxInFlight == 2
UserEntries == 48
SystemEntries == 3

\* ------------------------------------------------------------------------
\* Program constants
\* ------------------------------------------------------------------------
DEFAULT_PAGE_SIZE == 25
pageSizeOptions == {10, 25, 50, 100}

\* const enum ActivityView
All == "All"
User == "User"
System == "System"
ActivityView == {All, User, System}

\* JavaScript null (searchParams.get of an absent parameter, newView of a
\* de-selection) and undefined (an optional value that is not there)
NULL == "<null>"
Undefined == <<>>
Some(x) == <<x>>

\* Values the `useractivity` parameter is given in the address bar
ParamValues == {"true", "false", "TRUE", "1", "yes", "0", ""}
ParamOrNull == ParamValues \cup {NULL}

\* ------------------------------------------------------------------------
\* Pure functions
\* ------------------------------------------------------------------------
\* String.prototype.toLowerCase on the values above
toLowerCase(s) ==
    CASE s = "TRUE" -> "true"
      [] s = "True" -> "true"
      [] s = "YES" -> "yes"
      [] s = "Yes" -> "yes"
      [] s = "FALSE" -> "false"
      [] OTHER -> s

\* utils/string toBoolean: permissive string-to-boolean coercion
toBoolean(value) == toLowerCase(value) \in {"true", "1", "yes"}

getActivityViewSwapped(param) ==
    IF param = NULL THEN All
    ELSE IF toBoolean(param) THEN System
    ELSE User

getActivityView(param) ==
    IF param = NULL THEN All
    ELSE IF toBoolean(param) THEN User
    ELSE System

\* `${activityView === ActivityView.User}`
viewParamValueNegated(view) == IF view = User THEN "false" ELSE "true"

viewParamValue(view) == IF view = User THEN "true" ELSE "false"

\* searchParams.delete(VIEW_PARAM) / searchParams.set(VIEW_PARAM, ...)
syncedParamNoDelete(view) == viewParamValue(view)

syncedParam(view) == IF view = All THEN NULL ELSE viewParamValue(view)

activityParamsOfPageOnly(pm, view) ==
    [ startIndex |-> pm.page,
      limit |-> pm.pageSize,
      hasUserId |-> IF view # All THEN Some(view = User) ELSE Undefined ]

activityParamsOf(pm, view) ==
    [ startIndex |-> pm.page * pm.pageSize,
      limit |-> pm.pageSize,
      hasUserId |-> IF view # All THEN Some(view = User) ELSE Undefined ]

userColDefNotAll(view) == IF view # All THEN <<"User">> ELSE <<>>

userColDef(view) == IF view # System THEN <<"User">> ELSE <<>>

columnsOf(view) ==
    <<"Date", "Time", "Severity">> \o userColDef(view)
        \o <<"Name", "Overview", "Type", "actions">>

Min(a, b) == IF a < b THEN a ELSE b
Max(a, b) == IF a > b THEN a ELSE b

\* The activity-log endpoint: the entries matching the filter, cut to the
\* requested window
totalRecordCount(hasUserId) ==
    IF hasUserId = Undefined THEN UserEntries + SystemEntries
    ELSE IF hasUserId = Some(TRUE) THEN UserEntries
    ELSE SystemEntries

fetchLogEntries(params) ==
    [ key |-> params,
      Items |-> Max(0, Min(params.limit,
                           totalRecordCount(params.hasUserId) - params.startIndex)),
      TotalRecordCount |-> totalRecordCount(params.hasUserId) ]

\* rows / rowCount props of the DataGrid
gridRows(data) == IF data = Undefined THEN 0 ELSE data[1].Items
gridRowCount(data) == IF data = Undefined THEN 0 ELSE data[1].TotalRecordCount

\* ------------------------------------------------------------------------
\* State
\* ------------------------------------------------------------------------
VARIABLES
    searchParams,     \* value of the `useractivity` parameter, or NULL
    activityView,     \* useState: the view mode
    paginationModel,  \* useState: [page, pageSize]
    activityParams,   \* useMemo: the fetch parameters of the last render
    columns,          \* the column set of the last render
    effectPending,    \* the URL-sync effect is scheduled (a dependency changed)
    inflight,         \* parameters of the activity requests in flight
    logEntries,       \* data of useLogEntires, Undefined while loading
    last,             \* history: the step taken last
    lastEvent,        \* history: "mount", "view" or "nav", the last change
    urlViewAtEvent,   \* history: what the URL decoded to right after it
    urlMutations      \* history: setSearchParams calls since it

vars == << searchParams, activityView, paginationModel, activityParams,
           columns, effectPending, inflight, logEntries, last, lastEvent,
           urlViewAtEvent, urlMutations >>

progVars == << searchParams, activityView, paginationModel, activityParams,
               columns, effectPending, inflight, logEntries >>

isLogEntriesLoading == logEntries = Undefined

\* useLogEntires(activityParams) on a render: a change of the parameters by
\* value issues a request for them and shows no data until it resolves
useLogEntriesRender(params) ==
    IF params = activityParams
    THEN UNCHANGED << inflight, logEntries >>
    ELSE /\ inflight' = inflight \cup {params}
         /\ logEntries' = Undefined

\* A render of the component with the given state
Render(pm, view) ==
    /\ activityParams' = activityParamsOf(pm, view)
    /\ columns' = columnsOf(view)
    /\ useLogEntriesRender(activityParamsOf(pm, view))

Init ==
    /\ searchParams \in ParamOrNull
    /\ activityView = getActivityView(searchParams)
    /\ paginationModel = [page |-> 0, pageSize |-> DEFAULT_PAGE_SIZE]
    /\ activityParams = activityParamsOf(paginationModel, activityView)
    /\ columns = columnsOf(activityView)
    /\ effectPending = TRUE
    /\ inflight = {activityParams}
    /\ logEntries = Undefined
    /\ last = "mount"
    /\ lastEvent = "mount"
    /\ urlViewAtEvent = getActivityView(searchParams)
    /\ urlMutations = 0

\* ------------------------------------------------------------------------
\* Actions
\* ------------------------------------------------------------------------
onViewChangeNoGuard(newView) ==
    /\ activityView' = newView
    /\ Render(paginationModel, newView)
    /\ effectPending' = TRUE
    /\ UNCHANGED << searchParams, paginationModel >>
    /\ last' = IF newView # NULL THEN "view" ELSE "viewnull"
    /\ lastEvent' = "view"
    /\ urlViewAtEvent' = getActivityView(searchParams)
    /\ urlMutations' = 0

onViewChangeResetPage(newView) ==
    IF newView # NULL
    THEN /\ activityView' = newView
         /\ paginationModel' = [paginationModel EXCEPT !.page = 0]
         /\ Render(paginationModel', newView)
         /\ effectPending' = TRUE
         /\ UNCHANGED << searchParams >>
         /\ last' = "view"
         /\ lastEvent' = "view"
         /\ urlViewAtEvent' = getActivityView(searchParams)
         /\ urlMutations' = 0
    ELSE /\ UNCHANGED progVars
         /\ last' = "viewnull"
         /\ UNCHANGED << lastEvent, urlViewAtEvent, urlMutations >>

onViewChange(newView) ==
    IF newView # NULL
    THEN /\ activityView' = newView
         /\ Render(paginationModel, newView)
         /\ effectPending' = TRUE
         /\ UNCHANGED << searchParams, paginationModel >>
         /\ last' = "view"
         /\ lastEvent' = "view"
         /\ urlViewAtEvent' = getActivityView(searchParams)
         /\ urlMutations' = 0
    ELSE /\ UNCHANGED progVars
         /\ last' = "viewnull"
         /\ UNCHANGED << lastEvent, urlViewAtEvent, urlMutations >>

\* A click on the toggle button of value v: the exclusive group emits null
\* for the button that is already selected
ToggleClick(v) ==
    /\ Cardinality(inflight \cup
           {activityParamsOf(paginationModel, v)}) <= MaxInFlight
    /\ onViewChange(IF v = activityView THEN NULL ELSE v)

\* onPaginationModelChange={setPaginationModel}; the grid offers the pages
\* its rowCount covers
setPaginationModel(pm) ==
    /\ pm # paginationModel
    /\ pm.page <= MaxPage
    /\ pm.page = 0 \/ pm.page * pm.pageSize < gridRowCount(logEntries)
    /\ Cardinality(inflight \cup
           {activityParamsOf(pm, activityView)}) <= MaxInFlight
    /\ paginationModel' = pm
    /\ Render(pm, activityView)
    /\ UNCHANGED << searchParams, activityView, effectPending >>
    /\ last' = "page"
    /\ UNCHANGED << lastEvent, urlViewAtEvent, urlMutations >>

syncEffectAlways ==
    /\ effectPending
    /\ searchParams' = syncedParam(activityView)
    /\ effectPending' = TRUE
    /\ urlMutations' = urlMutations + 1
    /\ last' = "sync"
    /\ Render(paginationModel, activityView)
    /\ UNCHANGED << activityView, paginationModel, lastEvent, urlViewAtEvent >>

syncEffectAdoptUrl ==
    /\ effectPending
    /\ effectPending' = FALSE
    /\ activityView' = getActivityView(searchParams)
    /\ last' = "nosync"
    /\ Render(paginationModel, activityView')
    /\ UNCHANGED << searchParams, paginationModel, lastEvent,
                    urlViewAtEvent, urlMutations >>

\* useEffect(..., [activityView, searchParams, setSearchParams])
syncEffect ==
    /\ effectPending
    /\ IF getActivityView(searchParams) # activityView
       THEN /\ searchParams' = syncedParam(activityView)
            /\ effectPending' = TRUE
            /\ urlMutations' = urlMutations + 1
            /\ last' = "sync"
       ELSE /\ UNCHANGED << searchParams, urlMutations >>
            /\ effectPending' = FALSE
            /\ last' = "nosync"
    /\ Render(paginationModel, activityView)
    /\ UNCHANGED << activityView, paginationModel, lastEvent, urlViewAtEvent >>

\* The location changes from outside the component (history back/forward,
\* an edited address): useSearchParams returns the new parameters
Navigate(v) ==
    /\ v # searchParams
    /\ searchParams' = v
    /\ effectPending' = TRUE
    /\ Render(paginationModel, activityView)
    /\ UNCHANGED << activityView, paginationModel >>
    /\ last' = "nav"
    /\ lastEvent' = "nav"
    /\ urlViewAtEvent' = getActivityView(v)
    /\ urlMutations' = 0

resolveLogEntriesLastWins(p) ==
    /\ p \in inflight
    /\ inflight' = inflight \ {p}
    /\ logEntries' = Some(fetchLogEntries(p))
    /\ last' = IF p = activityParams THEN "resolve" ELSE "resolveStale"
    /\ UNCHANGED << searchParams, activityView, paginationModel,
                    activityParams, columns, effectPending,
                    lastEvent, urlViewAtEvent, urlMutations >>

\* A request resolves: its data is shown when it answers the parameters the
\* page subscribes to, a superseded request's data is not
resolveLogEntries(p) ==
    /\ p \in inflight
    /\ inflight' = inflight \ {p}
    /\ logEntries' = IF p = activityParams
                     THEN Some(fetchLogEntries(p))
                     ELSE logEntries
    /\ last' = IF p = activityParams THEN "resolve" ELSE "resolveStale"
    /\ UNCHANGED << searchParams, activityView, paginationModel,
                    activityParams, columns, effectPending,
                    lastEvent, urlViewAtEvent, urlMutations >>

PaginationModels == [page : 0..MaxPage, pageSize : pageSizeOptions]

Next ==
    \/ \E v \in ActivityView : ToggleClick(v)
    \/ \E pm \in PaginationModels : setPaginationModel(pm)
    \/ syncEffect
    \/ \E v \in ParamOrNull : Navigate(v)
    \/ \E p \in inflight : resolveLogEntries(p)

Spec == Init /\ [][Next]_vars

\* ------------------------------------------------------------------------
\* Properties
\* ------------------------------------------------------------------------
TypeOK ==
    /\ searchParams \in ParamOrNull
    /\ activityView \in ActivityView
    /\ paginationModel \in PaginationModels
    /\ effectPending \in BOOLEAN
    /\ Cardinality(inflight) <= MaxInFlight
    /\ urlMutations \in 0..1

\* C1: the view mode and the `useractivity` parameter agree at mount, right
\* after every run of the synchronisation effect, and whenever no run of
\* the effect is pending.
C1_ViewMatchesUrl ==
    /\ lastEvent = "mount" => activityView = getActivityView(searchParams)
    /\ last \in {"sync", "nosync"} =>
           getActivityView(searchParams) = activityView
    /\ ~effectPending => getActivityView(searchParams) = activityView

C1_Witness ==
    /\ lastEvent = "view"
    /\ ~effectPending
    /\ urlMutations = 1
    /\ activityView = System
    /\ searchParams = "false"

\* C2: what the effect writes for a mode decodes to that mode: All removes
\* the parameter, User writes "true", System writes "false", and
\* getActivityView of the written value is the mode again.
C2_EncodeDecodeRoundTrip ==
    last = "sync" =>
        /\ searchParams = (CASE activityView = All -> NULL
                             [] activityView = User -> "true"
                             [] activityView = System -> "false")
        /\ getActivityView(searchParams) = activityView

C2_Witness ==
    /\ last = "sync"
    /\ activityView = All
    /\ searchParams = NULL

\* C3: after one change of the view mode the effect calls setSearchParams
\* once when the URL decoded to another mode than the new one and not at
\* all when it decoded to the new mode; runs of the effect after the
\* rewrite add no call.
C3_OneUrlMutationPerChange ==
    lastEvent = "view" =>
        LET expected == IF urlViewAtEvent = activityView THEN 0 ELSE 1
        IN  /\ urlMutations <= expected
            /\ ~effectPending => urlMutations = expected
            /\ last = "sync" => urlMutations = 1

C3_Witness ==
    /\ lastEvent = "view"
    /\ last = "nosync"
    /\ ~effectPending
    /\ urlMutations = 1

C3_WitnessZero ==
    /\ lastEvent = "view"
    /\ last = "nosync"
    /\ ~effectPending
    /\ urlMutations = 0

\* C4: the fetch parameters are startIndex = page * pageSize,
\* limit = pageSize and hasUserId undefined / true / false for
\* All / User / System; page 2 of size 25 in User mode gives
\* {startIndex: 50, limit: 25, hasUserId: true}.
C4_FetchParams ==
    /\ activityParams.startIndex =
           paginationModel.page * paginationModel.pageSize
    /\ activityParams.limit = paginationModel.pageSize
    /\ activityParams.hasUserId =
           (CASE activityView = All -> Undefined
              [] activityView = User -> Some(TRUE)
              [] activityView = System -> Some(FALSE))
    /\ ( /\ paginationModel = [page |-> 2, pageSize |-> 25]
         /\ activityView = User )
       => activityParams =
              [startIndex |-> 50, limit |-> 25, hasUserId |-> Some(TRUE)]

C4_Witness ==
    /\ paginationModel = [page |-> 2, pageSize |-> 25]
    /\ activityView = User
    /\ activityParams.startIndex = 50

\* C5: an absent parameter decodes to All, a value that is "true", "1" or
\* "yes" in any letter case to User, and every other value to System.
C5_DecodeRule ==
    LET decoded(p) ==
            IF p = NULL THEN All
            ELSE IF p \in {"true", "TRUE", "1", "yes"} THEN User
            ELSE System
    IN  /\ lastEvent = "mount" => activityView = decoded(searchParams)
        /\ last = "nav" => urlViewAtEvent = decoded(searchParams)

C5_Witness ==
    /\ lastEvent = "mount"
    /\ searchParams = "TRUE"
    /\ activityView = User

\* C6: the User column is in the column set exactly when the view mode is
\* not System; the other seven columns are always there.
C6_UserColumn ==
    LET fields == {columns[i] : i \in 1..Len(columns)}
    IN  /\ ("User" \in fields) <=> (activityView # System)
        /\ {"Date", "Time", "Severity", "Name", "Overview", "Type",
            "actions"} \subseteq fields

C6_Witness ==
    /\ last = "view"
    /\ activityView = System
    /\ columns = <<"Date", "Time", "Severity", "Name", "Overview", "Type",
                   "actions">>

\* C7: a view-change event with a null value changes nothing: the view
\* mode, the URL parameter, the pagination, the fetch parameters, the
\* requests in flight and the number of URL mutations stay as they are.
C7_NullViewChangeNoOp ==
    [][last' = "viewnull" =>
          /\ UNCHANGED progVars
          /\ UNCHANGED << lastEvent, urlViewAtEvent, urlMutations >>]_vars

C7_Witness ==
    /\ last = "viewnull"
    /\ activityView = User

\* C8: a change of the view mode keeps the page index and the page size,
\* and the fetch parameters after it start at page * pageSize.
C8_ViewChangeKeepsPagination ==
    [][activityView' # activityView =>
          /\ paginationModel' = paginationModel
          /\ activityParams'.startIndex =
                 paginationModel.page * paginationModel.pageSize]_vars

C8_Witness ==
    /\ lastEvent = "view"
    /\ activityView = System
    /\ paginationModel.page > 0
    /\ logEntries # Undefined
    /\ logEntries[1].key = activityParams
    /\ activityParams.startIndex >= gridRowCount(logEntries)
    /\ gridRows(logEntries) = 0

====
